---- MODULE Spec2Model ----
(***************************************************************************)
(* A model of the covariance / model-selection numerics of mne/fixes.py:   *)
(* EmpiricalCovariance (fit, get_precision, score, error_norm,             *)
(* mahalanobis, set_params), empirical_covariance, _safe_svd,              *)
(* _infer_dimension_ and _assess_dimension_.                               *)
(*                                                                         *)
(* Numbers are exact rationals <<numerator, denominator>> in lowest terms  *)
(* with a positive denominator: the model follows the arithmetic the code  *)
(* asks NumPy for, without the rounding of float64.  Values the code gets  *)
(* from transcendental functions (log, gammaln, sqrt, eigenvalues) are     *)
(* kept symbolic or drawn from a small set, as said where they appear.     *)
(***************************************************************************)
EXTENDS Integers, Sequences, FiniteSets, TLC

VARIABLES
    store_precision,   \* [Instances -> BOOLEAN]: the constructor parameter
    assume_centered,   \* [Instances -> BOOLEAN]: the constructor parameter
    location_,         \* [Instances -> attribute]: Unset until fit
    covariance_,       \* [Instances -> attribute]: Unset until fit
    precision_,        \* [Instances -> attribute]: Unset, None or an array
    call,              \* the last completed call: what was called, how it ended
    data,              \* the sample matrix two estimators are fitted on (SpecCov)
    thread,            \* [Threads -> frame of a running fit] (SpecConc)
    writer,            \* [Instances -> per attribute, the thread that wrote it last]
    svd,               \* the frame of a _safe_svd call (SpecSvd)
    spectrum,          \* the spectrum handed to the dimension functions (SpecDim)
    evidence,          \* [rank -> the log evidence _assess_dimension_ computes]
    dim                \* the frame of a running _infer_dimension_ call

estimator == <<store_precision, assume_centered, location_, covariance_, precision_>>
concurrent == <<thread, writer>>
dimension == <<spectrum, evidence, dim>>
vars == <<estimator, call, data, concurrent, svd, dimension>>

-----------------------------------------------------------------------------
(* Bounds and input sets *)

MaxSamples == 2
FeatureCounts == {1, 2}
Vals == {-1, 1}
Instances == {1, 2}

Matrices(n, f) == [1..n -> [1..f -> Vals]]
Samples == UNION {Matrices(n, f) : n \in 1..MaxSamples, f \in FeatureCounts}

-----------------------------------------------------------------------------
(* Exact rational arithmetic standing for NumPy's float64 arithmetic *)

Abs(x) == IF x < 0 THEN -x ELSE x

RECURSIVE GCD(_, _)
GCD(a, b) == IF b = 0 THEN a ELSE GCD(b, a % b)

Norm(n, d) ==
    LET g == GCD(Abs(n), Abs(d))
        s == IF d < 0 THEN -1 ELSE 1
    IN  <<(s * n) \div g, (s * d) \div g>>

R(i) == <<i, 1>>
RAdd(a, b) == Norm(a[1] * b[2] + b[1] * a[2], a[2] * b[2])
RSub(a, b) == Norm(a[1] * b[2] - b[1] * a[2], a[2] * b[2])
RMul(a, b) == Norm(a[1] * b[1], a[2] * b[2])
RDiv(a, b) == Norm(a[1] * b[2], a[2] * b[1])
RNeg(a) == <<-a[1], a[2]>>

RECURSIVE RSum(_)
RSum(s) == IF s = <<>> THEN R(0) ELSE RAdd(s[1], RSum(Tail(s)))

-----------------------------------------------------------------------------
(* Arrays: a vector is a sequence of numbers, a matrix a sequence of rows *)

NRows(M) == Len(M)
NCols(M) == Len(M[1])
ToR(X) == [k \in 1..NRows(X) |-> [i \in 1..NCols(X) |-> R(X[k][i])]]
Transpose(M) == [i \in 1..NCols(M) |-> [k \in 1..NRows(M) |-> M[k][i]]]
Dot(A, B) ==
    [i \in 1..NRows(A) |-> [j \in 1..NCols(B) |->
        RSum([k \in 1..NCols(A) |-> RMul(A[i][k], B[k][j])])]]
MatScale(r, M) == [i \in 1..NRows(M) |-> [j \in 1..NCols(M) |-> RMul(r, M[i][j])]]
MatDiv(M, r) == [i \in 1..NRows(M) |-> [j \in 1..NCols(M) |-> RDiv(M[i][j], r)]]
MatAdd(A, B) == [i \in 1..NRows(A) |-> [j \in 1..NCols(A) |-> RAdd(A[i][j], B[i][j])]]
MatSub(A, B) == [i \in 1..NRows(A) |-> [j \in 1..NCols(A) |-> RSub(A[i][j], B[i][j])]]
MatMulElem(A, B) == [i \in 1..NRows(A) |-> [j \in 1..NCols(A) |-> RMul(A[i][j], B[i][j])]]
Eye(n) == [i \in 1..n |-> [j \in 1..n |-> IF i = j THEN R(1) ELSE R(0)]]
Zeros2(n) == [i \in 1..n |-> [j \in 1..n |-> R(0)]]
Zeros(n) == [i \in 1..n |-> R(0)]
Trace(M) == RSum([i \in 1..NRows(M) |-> M[i][i]])
SumAll(M) == RSum([i \in 1..NRows(M) |-> RSum(M[i])])
SumRows(M) == [i \in 1..NRows(M) |-> RSum(M[i])]
\* X.mean(0): the mean of every column
Mean0(X) == [i \in 1..NCols(X) |-> RDiv(RSum([k \in 1..NRows(X) |-> X[k][i]]), R(NRows(X)))]
\* X - v with v broadcast along the rows
SubRow(X, v) == [k \in 1..NRows(X) |-> [i \in 1..NCols(X) |-> RSub(X[k][i], v[i])]]

-----------------------------------------------------------------------------
(* Python values: attributes, return values and exceptions *)

Unset == [tag |-> "unset", val |-> <<>>]          \* the attribute does not exist
None == [tag |-> "None", val |-> <<>>]
Arr(v) == [tag |-> "ndarray", val |-> v]          \* a 1-D or 2-D array
Scalar(r) == [tag |-> "scalar", val |-> r]        \* a 0-d array or a float

\* how a call ends: the object after it, the value returned or the exception
\* raised, and the warnings emitted on the way
Return(self, v, w) == [self |-> self, kind |-> "return", val |-> v, warnings |-> w]
Raise(self, e, w) == [self |-> self, kind |-> "raise", val |-> e, warnings |-> w]
AttributeError(name) == [tag |-> "AttributeError", val |-> name]
TypeError == [tag |-> "TypeError", val |-> "NoneType"]
NotImplementedError == [tag |-> "NotImplementedError", val |-> "norm"]
ParamError(key) == [tag |-> "ValueError", val |-> key]

-----------------------------------------------------------------------------
(* pinvh: the pseudo-inverse of a symmetric matrix.                        *)
(* The code inverts the eigenvalues s with |s| > max|s| * rtol and drops   *)
(* the others with their eigenvectors: u[:, keep] * (1/s[keep]) @ u^H.     *)
(* For the exact matrices of this model the dropped eigenvalues are the    *)
(* zero ones (rtol is n * eps), so the result is the Moore-Penrose         *)
(* inverse, which is rational although the eigenvalues are not.  It is     *)
(* computed from the characteristic polynomial (Faddeev-LeVerrier):        *)
(* with M_1 = I, a_k = -tr(A M_k)/k, M_(k+1) = A M_k + a_k I and r the     *)
(* number of kept eigenvalues (the last k with a_k # 0), the kept          *)
(* eigenvalues satisfy 1/s = g(s) for g = -M_r/a_r, so that                *)
(* sum over kept s of (1/s) u u^H = A g(A) g(A).                           *)

(* The recurrence runs on the integer matrix N = D * a, D the common       *)
(* denominator of a, where every a_k is an integer: pinvh(a) = D*pinvh(N). *)

LCM(x, y) == (x * y) \div GCD(x, y)
RECURSIVE LCMAll(_)
LCMAll(s) == IF s = <<>> THEN 1 ELSE LCM(s[1][2], LCMAll(Tail(s)))
CommonDen(a) == LCMAll([i \in 1..NRows(a) |-> <<0, LCMAll(a[i])>>])
Numerators(a, D) ==
    [i \in 1..NRows(a) |-> [j \in 1..NCols(a) |-> a[i][j][1] * (D \div a[i][j][2])]]

RECURSIVE ISum(_)
ISum(s) == IF s = <<>> THEN 0 ELSE s[1] + ISum(Tail(s))
IDot(A, B) ==
    [i \in 1..NRows(A) |-> [j \in 1..NCols(B) |->
        ISum([k \in 1..NCols(A) |-> A[i][k] * B[k][j]])]]
ITrace(M) == ISum([i \in 1..NRows(M) |-> M[i][i]])
IEye(n) == [i \in 1..n |-> [j \in 1..n |-> IF i = j THEN 1 ELSE 0]]

\* <<M_1, a_1>>, ..., <<M_n, a_n>> of the integer matrix N, from <<M_k, a_k>> on
RECURSIVE FaddeevLeVerrier(_, _, _)
FaddeevLeVerrier(N, k, M) ==
    LET NM == IDot(N, M)
        a == -(ITrace(NM) \div k)
    IN  IF k = NRows(N) THEN <<[M |-> M, a |-> a]>>
        ELSE <<[M |-> M, a |-> a]>> \o
             FaddeevLeVerrier(N, k + 1,
                 [i \in 1..NRows(N) |-> [j \in 1..NRows(N) |->
                     NM[i][j] + (IF i = j THEN a ELSE 0)]])

\* the number of eigenvalues above the cutoff (line 861): the nonzero ones
above_cutoff(fl) ==
    LET nz == {k \in 1..Len(fl) : fl[k].a # 0}
    IN  IF nz = {} THEN 0 ELSE CHOOSE k \in nz : \A j \in nz : j <= k

pinvh(a) ==
    LET D == CommonDen(a)
        N == Numerators(a, D)
        fl == FaddeevLeVerrier(N, 1, IEye(NRows(a)))
        r == above_cutoff(fl)
        NMM == IDot(IDot(N, fl[r].M), fl[r].M)
    IN  IF r = 0 THEN Zeros2(NRows(a))
        ELSE [i \in 1..NRows(a) |-> [j \in 1..NRows(a) |->
                 Norm(D * NMM[i][j], fl[r].a * fl[r].a)]]

-----------------------------------------------------------------------------
(* empirical_covariance *)

OneSampleWarning == "Only one sample available"

\* np.cov(m, bias=0): normalised by N - 1 (one observation is left as it is)
np_cov_unbiased(m) ==
    LET Xc == Transpose(SubRow(Transpose(m), Mean0(Transpose(m))))
        fact == IF NCols(m) > 1 THEN NCols(m) - 1 ELSE 1
        c == MatScale(RDiv(R(1), R(fact)), Dot(Xc, Transpose(Xc)))
    IN  IF NRows(c) = 1 /\ NCols(c) = 1 THEN Scalar(c[1][1]) ELSE Arr(c)

\* np.cov(m, bias=1) for m = X.T (one row per variable): subtract each row's
\* average, c = dot(m, m.T), c *= 1/N, and squeeze (a 1x1 result is 0-d)
np_cov(m) ==
    LET Xc == Transpose(SubRow(Transpose(m), Mean0(Transpose(m))))
        c == MatScale(RDiv(R(1), R(NCols(m))), Dot(Xc, Transpose(Xc)))
    IN  IF NRows(c) = 1 /\ NCols(c) = 1 THEN Scalar(c[1][1]) ELSE Arr(c)

\* the centered branch dividing by X.shape[1] instead of X.shape[0]
raw_covariance_by_features(X, ac) ==
    IF ac THEN Arr(MatDiv(Dot(Transpose(X), X), R(NCols(X))))
    ELSE np_cov(Transpose(X))

\* lines 390-393: the covariance before the ndim == 0 fix-up
raw_covariance(X, ac) ==
    IF ac THEN Arr(MatDiv(Dot(Transpose(X), X), R(NRows(X))))
    ELSE np_cov(Transpose(X))

\* X is 2-D here (fit reads X.shape[1]); the value returned is the matrix
empirical_covariance(X, ac) ==
    LET covariance == raw_covariance(X, ac)
    IN  IF covariance.tag = "scalar" THEN <<<<covariance.val>>>> ELSE covariance.val

\* a warning tied to X.shape[1] instead of X.shape[0]
empirical_covariance_warnings_by_features(X) ==
    IF NCols(X) = 1 THEN <<OneSampleWarning>> ELSE <<>>

\* lines 385-388
empirical_covariance_warnings(X) ==
    IF NRows(X) = 1 THEN <<OneSampleWarning>> ELSE <<>>

\* The same two functions with their values on the training sets tabulated
\* (a table is computed once; any other argument is computed when asked for)
RSamples == {ToR(X) : X \in Samples}
covariance_table ==
    [ac \in BOOLEAN, X \in RSamples |-> empirical_covariance(X, ac)] @@ <<>>
pinvh_table ==
    [a \in {covariance_table[k] : k \in DOMAIN covariance_table} |-> pinvh(a)] @@ <<>>
empirical_covariance_of(X, ac) ==
    IF <<ac, X>> \in DOMAIN covariance_table THEN covariance_table[ac, X]
    ELSE empirical_covariance(X, ac)
linalg_pinvh(a) == IF a \in DOMAIN pinvh_table THEN pinvh_table[a] ELSE pinvh(a)

-----------------------------------------------------------------------------
(* EmpiricalCovariance.  An object is the record of its attributes; a      *)
(* method takes self and gives the object after the call with the way the  *)
(* call ended.                                                             *)

\* __init__
EmpiricalCovariance(sp, ac) ==
    [store_precision |-> sp, assume_centered |-> ac,
     location_ |-> Unset, covariance_ |-> Unset, precision_ |-> Unset]

\* line 446
set_covariance_(self, covariance) == [self EXCEPT !.covariance_ = Arr(covariance)]

\* a _set_covariance that leaves precision_ alone when it is not to be stored
set_precision_if_stored(self, covariance) ==
    IF self.store_precision
    THEN [self EXCEPT !.precision_ = Arr(linalg_pinvh(covariance))]
    ELSE self

\* a _set_covariance that inverts the attribute instead of its argument
set_precision_of_attribute(self, covariance) ==
    [self EXCEPT !.precision_ = IF self.store_precision
                                THEN Arr(linalg_pinvh(self.covariance_.val))
                                ELSE None]

\* lines 448-451
set_precision_(self, covariance) ==
    [self EXCEPT !.precision_ = IF self.store_precision
                                THEN Arr(linalg_pinvh(covariance))
                                ELSE None]

_set_covariance(self, covariance) ==
    set_precision_(set_covariance_(self, covariance), covariance)

\* lines 487-490
fit_location(self, X) ==
    [self EXCEPT !.location_ = IF self.assume_centered THEN Arr(Zeros(NCols(X)))
                               ELSE Arr(Mean0(X))]

fit(self, X) ==
    Return(_set_covariance(fit_location(self, X),
                           empirical_covariance_of(X, self.assume_centered)),
           Arr("self"), empirical_covariance_warnings(X))

\* a get_precision that reads precision_ with a default of None
get_precision_default(self) ==
    IF self.store_precision
    THEN Return(self, IF self.precision_ = Unset THEN None ELSE self.precision_, <<>>)
    ELSE IF self.covariance_ = Unset THEN Return(self, None, <<>>)
         ELSE Return(self, Arr(linalg_pinvh(self.covariance_.val)), <<>>)

\* a get_precision that keeps what it computes on demand in precision_
get_precision_caching(self) ==
    IF self.store_precision
    THEN IF self.precision_ = Unset THEN Raise(self, AttributeError("precision_"), <<>>)
         ELSE Return(self, self.precision_, <<>>)
    ELSE IF self.covariance_ = Unset THEN Raise(self, AttributeError("covariance_"), <<>>)
         ELSE Return([self EXCEPT !.precision_ = Arr(linalg_pinvh(self.covariance_.val))],
                     Arr(linalg_pinvh(self.covariance_.val)), <<>>)

get_precision(self) ==
    IF self.store_precision
    THEN IF self.precision_ = Unset THEN Raise(self, AttributeError("precision_"), <<>>)
         ELSE Return(self, self.precision_, <<>>)
    ELSE IF self.covariance_ = Unset THEN Raise(self, AttributeError("covariance_"), <<>>)
         ELSE Return(self, Arr(linalg_pinvh(self.covariance_.val)), <<>>)

\* _logdet: the sum of the logs of the clamped eigenvalues, kept symbolic
_logdet(A) == [tag |-> "logdet", val |-> A]

\* precision.shape fails on None; the value is kept as its three terms
log_likelihood(emp_cov, precision) ==
    IF precision.tag # "ndarray" THEN [kind |-> "raise", val |-> AttributeError("shape")]
    ELSE [kind |-> "return",
          val |-> [tag |-> "log_likelihood",
                   val |-> [p |-> NRows(precision.val),
                            sum |-> SumAll(MatMulElem(emp_cov, precision.val)),
                            logdet |-> _logdet(precision.val)]]]

score(self, X_test) ==
    IF self.location_ = Unset THEN Raise(self, AttributeError("location_"), <<>>)
    ELSE LET Xc == SubRow(X_test, self.location_.val)
             w == empirical_covariance_warnings(Xc)
             test_cov == empirical_covariance_of(Xc, TRUE)
             p == get_precision(self)
             res == log_likelihood(test_cov, p.val)
         IN  IF p.kind = "raise" THEN Raise(p.self, p.val, w)
             ELSE IF res.kind = "raise" THEN Raise(p.self, res.val, w)
             ELSE Return(p.self, res.val, w)

Norms == {"frobenius", "spectral", "nuclear"}

\* results the model keeps symbolic: the largest singular value, a square root
Amax_svdvals(M) == [tag |-> "amax_svdvals", val |-> M]
Sqrt(x) == [tag |-> "sqrt", val |-> x]
\* a scaling by the number of entries, error.size
DivBySize(x, n) ==
    IF x.tag = "scalar" THEN Scalar(RDiv(x.val, R(n * n)))
    ELSE [tag |-> "div", val |-> <<x, n * n>>]

DivBy(x, n) ==
    IF x.tag = "scalar" THEN Scalar(RDiv(x.val, R(n))) ELSE [tag |-> "div", val |-> <<x, n>>]

\* an error norm that takes any other name for 'frobenius'
squared_error_norm_lenient(error, norm) ==
    IF norm = "spectral"
    THEN [kind |-> "return", val |-> Amax_svdvals(Dot(Transpose(error), error))]
    ELSE [kind |-> "return", val |-> Scalar(SumAll(MatMulElem(error, error)))]

\* lines 554-561: the squared norm, or the error for another norm name
squared_error_norm(error, norm) ==
    IF norm = "frobenius"
    THEN [kind |-> "return", val |-> Scalar(SumAll(MatMulElem(error, error)))]
    ELSE IF norm = "spectral"
    THEN [kind |-> "return", val |-> Amax_svdvals(Dot(Transpose(error), error))]
    ELSE [kind |-> "raise", val |-> NotImplementedError]

error_norm(self, comp_cov, norm, scaling, squared) ==
    IF self.covariance_ = Unset THEN Raise(self, AttributeError("covariance_"), <<>>)
    ELSE LET error == MatSub(comp_cov, self.covariance_.val)
             sn == squared_error_norm(error, norm)
             scaled == IF scaling THEN DivBy(sn.val, NRows(error)) ELSE sn.val
         IN  IF sn.kind = "raise" THEN Raise(self, sn.val, <<>>)
             ELSE Return(self, IF squared THEN scaled ELSE Sqrt(scaled), <<>>)

mahalanobis(self, observations) ==
    LET p == get_precision(self)
    IN  IF p.kind = "raise" THEN p
        ELSE IF p.self.location_ = Unset
        THEN Raise(p.self, AttributeError("location_"), <<>>)
        ELSE LET centered_obs == SubRow(observations, p.self.location_.val)
             IN  IF p.val.tag # "ndarray" THEN Raise(p.self, TypeError, <<>>)
                 ELSE Return(p.self,
                             Arr(SumRows(MatMulElem(Dot(centered_obs, p.val.val),
                                                    centered_obs))), <<>>)

\* set_params(key=value): the parameters get_params lists are the arguments
\* of __init__; any other key is an error and sets nothing
ParamNames == {"assume_centered", "store_precision"}

\* a set_params that drops the stored precision when store_precision is
\* switched off
set_params_clearing(self, key, value) ==
    IF key \notin ParamNames THEN Raise(self, ParamError(key), <<>>)
    ELSE Return([[self EXCEPT ![key] = value] EXCEPT
                    !.precision_ = IF key = "store_precision" /\ ~value /\ @ # Unset
                                   THEN None ELSE @],
                Arr("self"), <<>>)

set_params(self, key, value) ==
    IF key \notin ParamNames THEN Raise(self, ParamError(key), <<>>)
    ELSE Return([self EXCEPT ![key] = value], Arr("self"), <<>>)

-----------------------------------------------------------------------------
(* The calls a single caller makes on one estimator *)

Obj(i) ==
    [store_precision |-> store_precision[i], assume_centered |-> assume_centered[i],
     location_ |-> location_[i], covariance_ |-> covariance_[i],
     precision_ |-> precision_[i]]

\* the attributes of object i become those of the record self
Store(i, self) ==
    /\ store_precision' = [store_precision EXCEPT ![i] = self.store_precision]
    /\ assume_centered' = [assume_centered EXCEPT ![i] = self.assume_centered]
    /\ location_' = [location_ EXCEPT ![i] = self.location_]
    /\ covariance_' = [covariance_ EXCEPT ![i] = self.covariance_]
    /\ precision_' = [precision_ EXCEPT ![i] = self.precision_]

Fitted(i) == covariance_[i] # Unset
Unfitted(i) ==
    location_[i] = Unset /\ covariance_[i] = Unset /\ precision_[i] = Unset

\* a call of method op on object i with arguments args that ended as res;
\* fitted tells whether fit had been called on the object when the call began
Do(i, op, args, res) ==
    /\ Store(i, res.self)
    /\ call' = [op |-> op, args |-> args, fitted |-> Fitted(i), kind |-> res.kind,
                val |-> res.val, warnings |-> res.warnings, trace |-> <<>>]
    /\ UNCHANGED <<data, concurrent, svd, dimension>>

NoCall == [op |-> "__init__", args |-> <<>>, fitted |-> FALSE, kind |-> "return",
           val |-> None, warnings |-> <<>>, trace |-> <<>>]

\* the arrays a caller passes to an estimator of n_features features: one
\* observation (row) for score and mahalanobis, the identity or the fitted
\* covariance itself for error_norm
NFeatures(i) == NRows(covariance_[i].val)
FeaturesOf(i) == IF Fitted(i) THEN {NFeatures(i)} ELSE FeatureCounts
Observations == {ToR(X) : X \in UNION {Matrices(1, f) : f \in FeatureCounts}}
TestSets(i) == {X \in Observations : NCols(X) \in FeaturesOf(i)}
CompCovs(i) ==
    {Eye(f) : f \in FeaturesOf(i)}
        \cup (IF Fitted(i) THEN {covariance_[i].val} ELSE {})

Fit(i, X) == Do(i, "fit", <<X>>, fit(Obj(i), X))

SetParams(i, key, value) ==
    Do(i, "set_params", <<key, value>>, set_params(Obj(i), key, value))

GetPrecision(i) == Do(i, "get_precision", <<>>, get_precision(Obj(i)))

Score(i, X_test) == Do(i, "score", <<X_test>>, score(Obj(i), X_test))

ErrorNorm(i, comp_cov, norm, scaling, squared) ==
    Do(i, "error_norm", <<comp_cov, norm, scaling, squared>>,
       error_norm(Obj(i), comp_cov, norm, scaling, squared))

Mahalanobis(i, observations) ==
    Do(i, "mahalanobis", <<observations>>, mahalanobis(Obj(i), observations))

\* what the variables of the other specifications hold when they are not used
Threads == {1, 2}
NoThread == [pc |-> "idle", obj |-> 0, X |-> <<>>, covariance |-> <<>>]
NoWriter == [location_ |-> 0, covariance_ |-> 0, precision_ |-> 0]
NoSvd == [pc |-> "idle"]
NoDim == [pc |-> "idle", rank |-> 0, ll |-> <<>>, trace |-> <<>>, n_samples |-> 0]
Unused ==
    /\ data = None
    /\ thread = [t \in Threads |-> NoThread]
    /\ writer = [i \in Instances |-> NoWriter]
    /\ svd = NoSvd
    /\ spectrum = None
    /\ evidence = <<>>
    /\ dim = NoDim

\* EmpiricalCovariance(store_precision=.., assume_centered=..): object 1 is the
\* estimator the caller works on, object 2 is built with the defaults
Init ==
    /\ store_precision \in {f \in [Instances -> BOOLEAN] : f[2] = TRUE}
    /\ assume_centered \in {f \in [Instances -> BOOLEAN] : f[2] = FALSE}
    /\ location_ = [i \in Instances |-> Unset]
    /\ covariance_ = [i \in Instances |-> Unset]
    /\ precision_ = [i \in Instances |-> Unset]
    /\ call = NoCall
    /\ Unused

Next ==
    \/ \E X \in RSamples : Fit(1, X)
    \/ \E key \in ParamNames \cup {"n_jobs"}, value \in BOOLEAN : SetParams(1, key, value)
    \/ GetPrecision(1)
    \/ \E X_test \in TestSets(1) : Score(1, X_test)
    \/ \E comp_cov \in CompCovs(1), norm \in Norms, scaling \in BOOLEAN, squared \in BOOLEAN :
          ErrorNorm(1, comp_cov, norm, scaling, squared)
    \/ \E observations \in TestSets(1) : Mahalanobis(1, observations)

Spec == Init /\ [][Next]_vars

-----------------------------------------------------------------------------
(* Two estimators fitted on the same data, one with assume_centered and    *)
(* one without (SpecCov).                                                  *)

InitCov ==
    /\ store_precision \in [Instances -> BOOLEAN]
    /\ assume_centered = [i \in Instances |-> i = 1]
    /\ location_ = [i \in Instances |-> Unset]
    /\ covariance_ = [i \in Instances |-> Unset]
    /\ precision_ = [i \in Instances |-> Unset]
    /\ call = NoCall
    /\ data \in Samples
    /\ thread = [t \in Threads |-> NoThread]
    /\ writer = [i \in Instances |-> NoWriter]
    /\ svd = NoSvd
    /\ spectrum = None /\ evidence = <<>> /\ dim = NoDim

FitData(i) == Fit(i, ToR(data))

NextCov == \E i \in Instances : FitData(i)

SpecCov == InitCov /\ [][NextCov]_vars

-----------------------------------------------------------------------------
(* fit running in two threads with no lock, on one estimator or on two     *)
(* (SpecConc).  A step is one attribute write of fit, or its computation   *)
(* of the covariance into a local.                                         *)

ThreadSamples == {ToR(X) : X \in UNION {Matrices(n, 1) : n \in 1..MaxSamples}}

\* thread t has called fit(X) on object obj and is about to run line 487
Fitting(obj, X) == [pc |-> "location", obj |-> obj, X |-> X, covariance |-> <<>>]

InitConc ==
    /\ store_precision \in {f \in [Instances -> BOOLEAN] : f[2] = TRUE}
    /\ assume_centered \in {f \in [Instances -> BOOLEAN] : f[2] = FALSE}
    /\ location_ = [i \in Instances |-> Unset]
    /\ covariance_ = [i \in Instances |-> Unset]
    /\ precision_ = [i \in Instances |-> Unset]
    /\ call = NoCall
    /\ data = None
    /\ \E obj \in Instances, X1 \in ThreadSamples, X2 \in ThreadSamples :
          thread = [t \in Threads |-> IF t = 1 THEN Fitting(1, X1) ELSE Fitting(obj, X2)]
    /\ writer = [i \in Instances |-> NoWriter]
    /\ svd = NoSvd
    /\ spectrum = None /\ evidence = <<>> /\ dim = NoDim

\* thread t moves to pc with its local covariance, after writing attribute
\* attr of its object (attr = "" when the step writes no attribute)
Step(t, self, attr, pc, covariance) ==
    /\ Store(thread[t].obj, self)
    /\ thread' = [thread EXCEPT ![t].pc = pc, ![t].covariance = covariance]
    /\ writer' = IF attr = "" THEN writer
                 ELSE [writer EXCEPT ![thread[t].obj][attr] = t]
    /\ UNCHANGED <<call, data, svd, dimension>>

\* lines 487-490
FitLocation(t) ==
    /\ thread[t].pc = "location"
    /\ Step(t, fit_location(Obj(thread[t].obj), thread[t].X), "location_",
            "covariance", thread[t].covariance)

\* line 491
FitEmpiricalCovariance(t) ==
    /\ thread[t].pc = "covariance"
    /\ Step(t, Obj(thread[t].obj), "", "set_covariance",
            empirical_covariance_of(thread[t].X, assume_centered[thread[t].obj]))

\* lines 492, 446
FitSetCovariance(t) ==
    /\ thread[t].pc = "set_covariance"
    /\ Step(t, set_covariance_(Obj(thread[t].obj), thread[t].covariance),
            "covariance_", "set_precision", thread[t].covariance)

\* lines 448-451
FitSetPrecision(t) ==
    /\ thread[t].pc = "set_precision"
    /\ Step(t, set_precision_(Obj(thread[t].obj), thread[t].covariance),
            "precision_", "done", thread[t].covariance)

NextConc ==
    \E t \in Threads :
        \/ FitLocation(t)
        \/ FitEmpiricalCovariance(t)
        \/ FitSetCovariance(t)
        \/ FitSetPrecision(t)

SpecConc == InitConc /\ [][NextConc]_vars

-----------------------------------------------------------------------------
(* _safe_svd (SpecSvd).  linalg.svd is LAPACK's: whether a driver converges *)
(* on A is the environment's, fixed when the call begins; a decomposition  *)
(* is named by the matrix, the driver and full_matrices.                   *)

Drivers == {"gesdd", "gesvd"}
LinAlgError == [tag |-> "LinAlgError", val |-> "SVD did not converge"]
OverwriteError ==
    [tag |-> "ValueError", val |-> "Cannot set overwrite_a=True with this function"]
SvdWarning == "SVD error (SVD did not converge), attempting to use GESVD instead of GESDD"
default_driver == "gesdd"
\* a fallback that asks for the same driver again
repeated_driver == default_driver
fallback_driver == "gesvd"

\* scipy.linalg.svd(A, lapack_driver=.., **kwargs)
linalg_svd(A, lapack_driver, kwargs, converges) ==
    IF converges[lapack_driver]
    THEN [kind |-> "return",
          val |-> [tag |-> "svd", val |-> <<A, lapack_driver, kwargs.full_matrices>>]]
    ELSE [kind |-> "raise", val |-> LinAlgError]

\* kwargs.get("overwrite_a", False)
overwrite_a(kwargs) == kwargs.overwrite_a = "True"

SvdKwargs == [overwrite_a : {"absent", "False", "True"}, full_matrices : BOOLEAN]

InitSvd ==
    /\ store_precision = [i \in Instances |-> TRUE]
    /\ assume_centered = [i \in Instances |-> FALSE]
    /\ location_ = [i \in Instances |-> Unset]
    /\ covariance_ = [i \in Instances |-> Unset]
    /\ precision_ = [i \in Instances |-> Unset]
    /\ call = NoCall
    /\ data = None
    /\ thread = [t \in Threads |-> NoThread]
    /\ writer = [i \in Instances |-> NoWriter]
    /\ \E A \in Samples, kwargs \in SvdKwargs, converges \in [Drivers -> BOOLEAN] :
          svd = [pc |-> "check", A |-> ToR(A), kwargs |-> kwargs,
                 converges |-> converges, drivers |-> <<>>, warnings |-> <<>>]
    /\ spectrum = None /\ evidence = <<>> /\ dim = NoDim

\* _safe_svd ends as res (its kind and value), having called the drivers
SvdEnd(res, drivers) ==
    /\ svd' = [svd EXCEPT !.pc = "done", !.drivers = drivers]
    /\ call' = [op |-> "_safe_svd", args |-> <<svd.A, svd.kwargs>>, fitted |-> FALSE,
                kind |-> res.kind, val |-> res.val, warnings |-> svd.warnings,
                trace |-> drivers]

SvdOthers == UNCHANGED <<estimator, data, concurrent, dimension>>

\* lines 94-95
SvdCheck ==
    /\ svd.pc = "check"
    /\ IF overwrite_a(svd.kwargs)
       THEN SvdEnd([kind |-> "raise", val |-> OverwriteError], svd.drivers)
       ELSE svd' = [svd EXCEPT !.pc = "try"] /\ UNCHANGED call
    /\ SvdOthers

\* lines 96-98
SvdTry ==
    /\ svd.pc = "try"
    /\ LET res == linalg_svd(svd.A, default_driver, svd.kwargs, svd.converges)
           drivers == Append(svd.drivers, default_driver)
       IN  IF res.kind = "return" THEN SvdEnd(res, drivers)
           ELSE /\ svd' = [svd EXCEPT !.pc = "except", !.drivers = drivers]
                /\ UNCHANGED call
    /\ SvdOthers

\* lines 99-101
SvdWarn ==
    /\ svd.pc = "except"
    /\ svd' = [svd EXCEPT !.pc = "fallback", !.warnings = Append(@, SvdWarning)]
    /\ UNCHANGED call
    /\ SvdOthers

\* line 102
SvdFallback ==
    /\ svd.pc = "fallback"
    /\ SvdEnd(linalg_svd(svd.A, fallback_driver, svd.kwargs, svd.converges),
              Append(svd.drivers, fallback_driver))
    /\ SvdOthers

NextSvd == SvdCheck \/ SvdTry \/ SvdWarn \/ SvdFallback

SpecSvd == InitSvd /\ [][NextSvd]_vars

-----------------------------------------------------------------------------
(* _infer_dimension_ and _assess_dimension_ (SpecDim).  The log evidence   *)
(* is a sum of logarithms and log-gamma values: the model keeps, for each  *)
(* rank, the number the computation gives (evidence), and computes the     *)
(* arguments of math.log in the pa loop, on which the call can fail.       *)

MaxSpectrum == 3
SpectrumVals == 1..3
EvidenceVals == {0, 1}
SampleCounts == {5}
Spectra == UNION {[1..n -> SpectrumVals] : n \in 0..MaxSpectrum}

Intp(i) == [tag |-> "int", val |-> i]
InvalidRank ==
    [tag |-> "ValueError", val |-> "The tested rank cannot exceed the rank of the dataset"]
MathDomainError == [tag |-> "ValueError", val |-> "math domain error"]
EmptyArgmax ==
    [tag |-> "ValueError", val |-> "attempt to get argmax of an empty sequence"]

\* range(n)
range(n) == 0..(n - 1)

\* lines 661-666: v
tail_mean(s, rank, n_features) ==
    IF rank = n_features THEN R(1)
    ELSE RDiv(RSum([k \in 1..(Len(s) - rank) |-> R(s[rank + k])]), R(n_features - rank))

\* lines 672-673: spectrum_ (s[j] here is spectrum[j - 1] there)
spectrum_copy(s, rank, n_features) ==
    [j \in 1..Len(s) |-> IF j > rank /\ j <= n_features
                         THEN tail_mean(s, rank, n_features) ELSE R(s[j])]

\* lines 676-678: the argument of log for the pair i, j
pa_argument(s, rank, n_features, i, j) ==
    LET s_ == spectrum_copy(s, rank, n_features)
    IN  RMul(RSub(R(s[i]), R(s[j])), RSub(RDiv(R(1), s_[j]), RDiv(R(1), s_[i])))

\* math.log raises on an argument that is not positive
pa_defined(s, rank, n_features) ==
    \A i \in 1..rank : \A j \in (i + 1)..Len(s) :
        pa_argument(s, rank, n_features, i, j)[1] > 0

\* lines 648-682; trace lists the terms of the score that were computed
_assess_dimension_(s, rank, n_samples, n_features) ==
    IF rank > Len(s)
    THEN [kind |-> "raise", val |-> InvalidRank, trace |-> <<>>]
    ELSE IF ~pa_defined(s, rank, n_features)
    THEN [kind |-> "raise", val |-> MathDomainError, trace |-> <<"pu", "pl", "pv", "pp">>]
    ELSE [kind |-> "return", val |-> Scalar(R(evidence[rank])),
          trace |-> <<"pu", "pl", "pv", "pp", "pa", "ll">>]

\* an argmax that gives the last of several maxima
argmax_last(ll) ==
    CHOOSE i \in range(Len(ll)) :
        /\ \A j \in range(Len(ll)) : ll[j + 1] <= ll[i + 1]
        /\ \A j \in range(Len(ll)) : j > i => ll[j + 1] < ll[i + 1]

\* ndarray.argmax of a non-empty array: the first index of the maximum
argmax(ll) ==
    CHOOSE i \in range(Len(ll)) :
        /\ \A j \in range(Len(ll)) : ll[j + 1] <= ll[i + 1]
        /\ \A j \in range(Len(ll)) : j < i => ll[j + 1] < ll[i + 1]

InitDim ==
    /\ store_precision = [i \in Instances |-> TRUE]
    /\ assume_centered = [i \in Instances |-> FALSE]
    /\ location_ = [i \in Instances |-> Unset]
    /\ covariance_ = [i \in Instances |-> Unset]
    /\ precision_ = [i \in Instances |-> Unset]
    /\ call = NoCall
    /\ data = None
    /\ thread = [t \in Threads |-> NoThread]
    /\ writer = [i \in Instances |-> NoWriter]
    /\ svd = NoSvd
    /\ \E s \in Spectra :
          /\ spectrum = Arr(s)
          /\ evidence \in [0..Len(s) -> EvidenceVals]
    /\ dim = NoDim

DimOthers == UNCHANGED <<estimator, data, concurrent, svd, spectrum, evidence>>
DimCall(op, args, res, trace) ==
    call' = [op |-> op, args |-> args, fitted |-> FALSE, kind |-> res.kind,
             val |-> res.val, warnings |-> <<>>, trace |-> trace]

\* _assess_dimension_ called by itself
AssessDimension(rank, n_samples) ==
    /\ dim.pc = "idle"
    /\ LET n_features == Len(spectrum.val)
           res == _assess_dimension_(spectrum.val, rank, n_samples, n_features)
       IN  DimCall("_assess_dimension_", <<spectrum.val, rank, n_samples, n_features>>,
                   res, res.trace)
    /\ UNCHANGED dim
    /\ DimOthers

\* lines 641-642
InferStart(n_samples) ==
    /\ dim.pc = "idle"
    /\ dim' = [pc |-> "loop", rank |-> 0, ll |-> <<>>, trace |-> <<>>,
               n_samples |-> n_samples]
    /\ UNCHANGED call
    /\ DimOthers

\* lines 643-644: one turn of the loop; an exception of the callee ends the call
InferAssess ==
    /\ dim.pc = "loop"
    /\ dim.rank \in range(Len(spectrum.val))
    /\ LET n_features == Len(spectrum.val)
           res == _assess_dimension_(spectrum.val, dim.rank, dim.n_samples, n_features)
           trace == Append(dim.trace, [rank |-> dim.rank, kind |-> res.kind,
                                       val |-> res.val])
       IN  IF res.kind = "raise"
           THEN /\ DimCall("_infer_dimension_",
                           <<spectrum.val, dim.n_samples, n_features>>, res, trace)
                /\ dim' = NoDim
           ELSE /\ dim' = [dim EXCEPT !.rank = @ + 1, !.trace = trace,
                                      !.ll = Append(@, res.val.val[1])]
                /\ UNCHANGED call
    /\ DimOthers

\* line 645
InferArgmax ==
    /\ dim.pc = "loop"
    /\ dim.rank \notin range(Len(spectrum.val))
    /\ DimCall("_infer_dimension_", <<spectrum.val, dim.n_samples, Len(spectrum.val)>>,
               IF dim.ll = <<>> THEN [kind |-> "raise", val |-> EmptyArgmax]
               ELSE [kind |-> "return", val |-> Intp(argmax(dim.ll))],
               dim.trace)
    /\ dim' = NoDim
    /\ DimOthers

NextDim ==
    \/ \E rank \in 0..(Len(spectrum.val) + 1), n_samples \in SampleCounts :
          AssessDimension(rank, n_samples)
    \/ \E n_samples \in SampleCounts : InferStart(n_samples)
    \/ InferAssess
    \/ InferArgmax

SpecDim == InitDim /\ [][NextDim]_vars

-----------------------------------------------------------------------------
(* The calls that take an option: error_norm on an estimator, or the       *)
(* dimension functions on a spectrum (SpecOptions).                        *)

InitOptions == Init \/ InitDim

NextOptions ==
    \/ /\ spectrum = None
       /\ \/ \E X \in RSamples : Fit(1, X)
          \/ \E comp_cov \in CompCovs(1), norm \in Norms, scaling \in BOOLEAN,
                squared \in BOOLEAN : ErrorNorm(1, comp_cov, norm, scaling, squared)
    \/ /\ spectrum # None
       /\ NextDim

SpecOptions == InitOptions /\ [][NextOptions]_vars

-----------------------------------------------------------------------------
(* pinvh and pinv on their decompositions (SpecLinalg).  np.linalg.eigh    *)
(* and np.linalg.svd are LAPACK's: the model draws matrices that have a    *)
(* decomposition in rationals and gives the functions that decomposition.  *)
(* float64 has a machine epsilon of 2^-52; the numbers of the model are    *)
(* exact, and its epsilon is 2^-EpsBits.                                   *)

EpsBits == 4
eps == <<1, 2 ^ EpsBits>>
Dims == 1..2
Tiny == <<1, 64>>                        \* a value below the default cutoffs
Eigenvalues == {R(-2), R(-1), R(0), Tiny, R(1), R(2)}
SingularValues == {R(0), Tiny, R(1), R(2)}
Rtols == {None, Scalar(R(0)), Scalar(<<1, 2>>), Scalar(R(1)), Scalar(R(2))}

RAbs(a) == <<Abs(a[1]), a[2]>>
RGt(a, b) == a[1] * b[2] > b[1] * a[2]
\* np.max of a non-empty 1-D array
RMax(v) == CHOOSE x \in {v[k] : k \in 1..Len(v)} : \A k \in 1..Len(v) : ~RGt(v[k], x)
IsZero(M) == \A i \in 1..Len(M) : \A j \in 1..Len(M[i]) : M[i][j] = R(0)

\* orthonormal columns: k columns of length m
Orthonormal(m, k) ==
    IF m = 1 THEN {<<<<R(1)>>>>, <<<<R(-1)>>>>}
    ELSE IF k = 1 THEN {<<<<R(1)>>, <<R(0)>>>>, <<<<R(0)>>, <<R(1)>>>>,
                       <<<<<<3, 5>>>>, <<<<4, 5>>>>>>}
    ELSE {Eye(2), <<<<R(0), R(1)>>, <<R(1), R(0)>>>>,
          <<<<<<3, 5>>, <<-4, 5>>>>, <<<<4, 5>>, <<3, 5>>>>>>}

\* u @ diag(s) @ vh
Compose(u, sv, vh) ==
    [i \in 1..Len(u) |-> [j \in 1..Len(vh[1]) |->
        RSum([k \in 1..Len(sv) |-> RMul(RMul(u[i][k], sv[k]), vh[k][j])])]]

\* what eigh can give: eigenvalues in ascending order, eigenvectors in columns
EighResults ==
    UNION {{[s |-> sv, u |-> u] :
              sv \in {x \in [1..n -> Eigenvalues] :
                         \A k \in 1..(n - 1) : ~RGt(x[k], x[k + 1])},
              u \in Orthonormal(n, n)} : n \in Dims}
Hermitians == {Compose(d.u, d.s, Transpose(d.u)) : d \in EighResults}

\* what svd(full_matrices=False) can give: singular values in descending order
SvdResults ==
    UNION {{[u |-> u, s |-> sv, vh |-> Transpose(v)] :
              sv \in {x \in [1..(IF m < n THEN m ELSE n) -> SingularValues] :
                         \A k \in 1..(Len(x) - 1) : ~RGt(x[k + 1], x[k])},
              u \in Orthonormal(m, IF m < n THEN m ELSE n),
              v \in Orthonormal(n, IF m < n THEN m ELSE n)} : m \in Dims, n \in Dims}
Rectangulars == {Compose(d.u, d.s, d.vh) : d \in SvdResults}

\* line 856: np.linalg.eigh(a)
np_linalg_eigh(a) ==
    CHOOSE d \in EighResults :
        Len(d.s) = Len(a) /\ Compose(d.u, d.s, Transpose(d.u)) = a

\* line 869: np.linalg.svd(a, full_matrices=False)
np_linalg_svd(a) ==
    CHOOSE d \in SvdResults :
        Len(d.u) = Len(a) /\ Len(d.vh[1]) = Len(a[1]) /\ Compose(d.u, d.s, d.vh) = a

\* the positions of the True entries of a boolean mask, in order
Where(mask) ==
    LET RECURSIVE From(_)
        From(k) == IF k > Len(mask) THEN <<>>
                   ELSE (IF mask[k] THEN <<k>> ELSE <<>>) \o From(k + 1)
    IN  From(1)

\* a cutoff test on the signed value
above_cutoff_signed(sv, rtol) ==
    [k \in 1..Len(sv) |-> RGt(sv[k], RMul(RMax([j \in 1..Len(sv) |-> RAbs(sv[j])]), rtol))]

\* lines 860-861: maxS = np.max(np.abs(s)); above_cutoff = abs(s) > maxS * rtol
above_cutoff_mask(sv, rtol) ==
    [k \in 1..Len(sv) |->
        RGt(RAbs(sv[k]), RMul(RMax([j \in 1..Len(sv) |-> RAbs(sv[j])]), rtol))]

\* lines 854-864, on the decomposition eigh gives; trace lists the
\* eigenvalues that are inverted
pinvh_eigh(a, rtol) ==
    LET d == np_linalg_eigh(a)
        rtol_ == IF rtol = None THEN RMul(R(Len(d.s)), eps) ELSE rtol.val
        kept == Where(above_cutoff_mask(d.s, rtol_))
        psigma_diag == [k \in 1..Len(kept) |-> RDiv(R(1), d.s[kept[k]])]
    IN  [kind |-> "return",
         val |-> Arr([i \in 1..Len(a) |-> [j \in 1..Len(a) |->
                    RSum([k \in 1..Len(kept) |->
                        RMul(RMul(d.u[i][kept[k]], psigma_diag[k]), d.u[j][kept[k]])])]]),
         trace |-> [k \in 1..Len(kept) |-> d.s[kept[k]]]]

\* lines 867-877, on the decomposition svd gives; trace lists the singular
\* values that u is divided by
pinv(a, rtol) ==
    LET d == np_linalg_svd(a)
        maxS == RMax(d.s)
        m == Len(d.u)
        n == Len(d.vh[1])
        rtol_ == IF rtol = None THEN RMul(R(IF m > n THEN m ELSE n), eps) ELSE rtol.val
        rank == Cardinality({k \in 1..Len(d.s) : RGt(d.s[k], RMul(maxS, rtol_))})
    IN  [kind |-> "return",
         val |-> Arr([j \in 1..n |-> [i \in 1..m |->
                    RSum([k \in 1..rank |->
                        RMul(RDiv(d.u[i][k], d.s[k]), d.vh[k][j])])]]),
         trace |-> [k \in 1..rank |-> d.s[k]]]

InitLinalg ==
    /\ store_precision = [i \in Instances |-> TRUE]
    /\ assume_centered = [i \in Instances |-> FALSE]
    /\ location_ = [i \in Instances |-> Unset]
    /\ covariance_ = [i \in Instances |-> Unset]
    /\ precision_ = [i \in Instances |-> Unset]
    /\ call = NoCall
    /\ Unused

\* a call of a module function on a matrix; the functions keep no state, and
\* a behaviour is one call
LinalgCall(op, args, res) ==
    /\ call = NoCall
    /\ call' = [op |-> op, args |-> args, fitted |-> FALSE, kind |-> res.kind,
                val |-> res.val, warnings |-> <<>>, trace |-> res.trace]
    /\ UNCHANGED <<estimator, data, concurrent, svd, dimension>>

Pinvh(a, rtol) == LinalgCall("pinvh", <<a, rtol>>, pinvh_eigh(a, rtol))

Pinv(a, rtol) == LinalgCall("pinv", <<a, rtol>>, pinv(a, rtol))

\* np.log of an array: the logarithm of a positive number is kept as a
\* symbol, log(0) is -inf and the log of a negative number is nan, both
\* with a RuntimeWarning and no exception
LogWarnings(v) ==
    (IF \E k \in 1..Len(v) : v[k] = R(0)
     THEN <<"divide by zero encountered in log">> ELSE <<>>)
    \o (IF \E k \in 1..Len(v) : RGt(R(0), v[k])
        THEN <<"invalid value encountered in log">> ELSE <<>>)
SumLog(v) ==
    IF \E k \in 1..Len(v) : RGt(R(0), v[k]) THEN [tag |-> "nan", val |-> <<>>]
    ELSE IF \E k \in 1..Len(v) : v[k] = R(0) THEN [tag |-> "-inf", val |-> <<>>]
    ELSE [tag |-> "sum_log", val |-> v]

\* lines 625-633 on the eigenvalues eigvalsh gives; trace lists the values
\* whose logarithm is taken
logdet_eigvalsh(A) ==
    LET vals == np_linalg_eigh(A).s
        tol == RMul(RMul(RMax(vals), R(Len(vals))), eps)
        clamped == [k \in 1..Len(vals) |-> IF RGt(vals[k], tol) THEN vals[k] ELSE tol]
    IN  [kind |-> "return", val |-> SumLog(clamped), trace |-> clamped,
         warnings |-> LogWarnings(clamped)]

Logdet(A) ==
    /\ call = NoCall
    /\ call' = [op |-> "_logdet", args |-> <<A>>, fitted |-> FALSE, kind |-> "return",
                val |-> logdet_eigvalsh(A).val,
                warnings |-> logdet_eigvalsh(A).warnings,
                trace |-> logdet_eigvalsh(A).trace]
    /\ UNCHANGED <<estimator, data, concurrent, svd, dimension>>

NextLinalg ==
    \/ \E a \in Hermitians, rtol \in Rtols : Pinvh(a, rtol)
    \/ \E a \in Rectangulars, rtol \in Rtols : Pinv(a, rtol)
    \/ \E A \in Hermitians : Logdet(A)

SpecLinalg == InitLinalg /\ [][NextLinalg]_vars

-----------------------------------------------------------------------------
(* Claims about one estimator and its caller (Spec) *)

ReadOps == {"get_precision", "score", "mahalanobis", "error_norm"}
IsArray(a) == a.tag = "ndarray"

\* C1 (as claimed): once fit has been called, get_precision() returns, and
\* what it returns is the pseudo-inverse of the current covariance_, never
\* None, whatever store_precision was at fit time and is now.
C1_GetPrecisionIsPinvh ==
    (call.op = "get_precision" /\ call.fitted) =>
        /\ call.kind = "return"
        /\ IsArray(call.val)
        /\ call.val.val = pinvh(covariance_[1].val)

\* C2: on an estimator on which fit was never called, get_precision, score,
\* mahalanobis and error_norm each end in an AttributeError (the attribute
\* they read does not exist) and leave the estimator unfitted, for either
\* value of store_precision.
C2_UnfittedCallsRaise ==
    (call.op \in ReadOps /\ ~call.fitted) =>
        /\ call.kind = "raise"
        /\ call.val.tag = "AttributeError"
        /\ Unfitted(1)

C2_Witness ==
    /\ call.op = "mahalanobis" /\ ~call.fitted /\ ~store_precision[1]
    /\ call.kind = "raise" /\ call.val = AttributeError("covariance_")
    /\ Unfitted(1)

\* C3: after fit(X) returns, on an estimator fitted before or not, the
\* three fitted attributes are those a newly built estimator with the same
\* two parameters has after fit(X); and an estimator is either unfitted
\* (none of the three attributes exists) or fitted (location_ and
\* covariance_ are arrays, precision_ is an array or None).
FullyFitted(i) ==
    /\ IsArray(location_[i]) /\ IsArray(covariance_[i])
    /\ precision_[i] # Unset
C3_RefitOverwrites ==
    /\ Unfitted(1) \/ FullyFitted(1)
    /\ call.op = "fit" =>
          Obj(1) = fit(EmpiricalCovariance(store_precision[1], assume_centered[1]),
                       call.args[1]).self

\* a second fit, of other data and with store_precision switched off since
C3_Witness ==
    /\ call.op = "fit" /\ call.fitted /\ call.kind = "return"
    /\ precision_[1] = None
    /\ \E X \in RSamples :
          /\ NCols(X) = NCols(call.args[1])
          /\ covariance_[1].val # empirical_covariance(X, assume_centered[1])

\* C4: score, error_norm, mahalanobis and get_precision leave the five
\* attributes as they were, whether they return or raise; a step that
\* changes location_, covariance_ or precision_ is a call of fit.
C4_ReadOpsChangeNothing ==
    [][/\ call'.op \in ReadOps => UNCHANGED estimator
       /\ <<location_, covariance_, precision_>>' # <<location_, covariance_, precision_>>
             => call'.op = "fit"]_vars

\* score raised on a fitted estimator and left it as it was
C4_Witness ==
    /\ call.op = "score" /\ call.fitted /\ call.kind = "raise"
    /\ FullyFitted(1)

-----------------------------------------------------------------------------
(* Claims about fit running in two threads (SpecConc) *)

\* what fit(X) of thread t gives on a newly built estimator with the
\* parameters of the thread's object
Alone(t) ==
    fit(EmpiricalCovariance(store_precision[thread[t].obj],
                            assume_centered[thread[t].obj]), thread[t].X).self
AllDone == \A t \in Threads : thread[t].pc = "done"
Shared == thread[1].obj = thread[2].obj

\* C5: nothing orders the attribute writes of two fit calls.  When both
\* calls are over, each of location_, covariance_ and precision_ of an
\* estimator holds what the call that wrote it last would have stored had it
\* run alone; and when the two threads fit different estimators, each
\* estimator is exactly as after its fit run alone.
C5_LastWriterWins ==
    AllDone =>
        /\ \A i \in Instances, t \in Threads :
              /\ writer[i].location_ = t => location_[i] = Alone(t).location_
              /\ writer[i].covariance_ = t => covariance_[i] = Alone(t).covariance_
              /\ writer[i].precision_ = t => precision_[i] = Alone(t).precision_
        /\ \A t \in Threads : \A a \in DOMAIN NoWriter : writer[thread[t].obj][a] # 0
        /\ ~Shared => \A t \in Threads : Obj(thread[t].obj) = Alone(t)

\* both fits are over on one estimator: location_ is of thread 1's data,
\* covariance_ and precision_ are of thread 2's, and the two data sets give
\* different values for all three
C5_Witness ==
    /\ AllDone /\ Shared
    /\ location_[1] = Alone(1).location_ /\ location_[1] # Alone(2).location_
    /\ covariance_[1] = Alone(2).covariance_ /\ covariance_[1] # Alone(1).covariance_
    /\ precision_[1] = Alone(2).precision_ /\ precision_[1] # Alone(1).precision_

-----------------------------------------------------------------------------
(* Claims about _safe_svd (SpecSvd) *)

Decomposition(driver) ==
    [tag |-> "svd", val |-> <<svd.A, driver, svd.kwargs.full_matrices>>]

\* C6: _safe_svd calls the default (GESDD) decomposition once; it warns,
\* once, and calls the GESVD decomposition, once, exactly when that first
\* call failed to converge; nothing is called a third time.  It returns the
\* first result with no warning when the first call converges, returns the
\* GESVD result when only that converges, and raises the convergence error
\* when neither does.  (A call with overwrite_a=True is refused before any
\* decomposition is tried.)
C6_OneFallback ==
    /\ svd.pc # "idle" =>
          /\ svd.drivers \in {<<>>, <<"gesdd">>, <<"gesdd", "gesvd">>}
          /\ svd.warnings \in {<<>>, <<SvdWarning>>}
          /\ svd.warnings # <<>> => svd.drivers # <<>> /\ ~svd.converges["gesdd"]
          /\ Len(svd.drivers) = 2 => svd.warnings = <<SvdWarning>>
    /\ (call.op = "_safe_svd" /\ ~overwrite_a(svd.kwargs)) =>
          /\ svd.pc = "done"
          /\ IF svd.converges["gesdd"]
             THEN /\ call.kind = "return" /\ call.val = Decomposition("gesdd")
                  /\ call.warnings = <<>> /\ call.trace = <<"gesdd">>
             ELSE /\ call.warnings = <<SvdWarning>>
                  /\ call.trace = <<"gesdd", "gesvd">>
                  /\ IF svd.converges["gesvd"]
                     THEN call.kind = "return" /\ call.val = Decomposition("gesvd")
                     ELSE call.kind = "raise" /\ call.val = LinAlgError
    /\ (call.op = "_safe_svd" /\ overwrite_a(svd.kwargs)) =>
          /\ call.kind = "raise" /\ call.val = OverwriteError
          /\ call.trace = <<>> /\ call.warnings = <<>>

\* the first decomposition did not converge, the second did and is returned
C6_Witness ==
    /\ call.op = "_safe_svd" /\ call.kind = "return"
    /\ call.val = Decomposition("gesvd")
    /\ call.trace = <<"gesdd", "gesvd">> /\ call.warnings = <<SvdWarning>>

-----------------------------------------------------------------------------
(* Claims about the dimension functions (SpecDim, SpecOptions) *)

Inferred == call.op = "_infer_dimension_"
NFeat == Len(spectrum.val)
AssessedRanks == [k \in 1..Len(call.trace) |-> call.trace[k].rank]
FailingRanks == {r \in range(NFeat) : ~pa_defined(spectrum.val, r, NFeat)}

\* C7 (as claimed): when _infer_dimension_ returns, it has assessed every
\* rank of 0..n_features, n_features included, and the rank it returns has
\* the greatest score of all of them.
C7_AssessesThroughNFeatures ==
    (Inferred /\ call.kind = "return") =>
        /\ {AssessedRanks[k] : k \in 1..Len(call.trace)} = 0..NFeat
        /\ \A r \in 0..NFeat : evidence[r] <= evidence[call.val.val]

\* C7 (amended): _infer_dimension_ assesses the ranks 0, 1, ..,
\* n_features - 1, in this order and each once; rank n_features is not
\* assessed.  When all these assessments succeed it returns the first rank
\* whose score is the greatest among them.  On an empty spectrum it raises
\* (argmax of nothing), and when an assessment fails it raises that error at
\* the first failing rank.
C7_AssessesBelowNFeatures ==
    Inferred =>
        IF NFeat = 0
        THEN call.kind = "raise" /\ call.val = EmptyArgmax /\ call.trace = <<>>
        ELSE IF FailingRanks # {}
        THEN /\ call.kind = "raise" /\ call.val = MathDomainError
             /\ \E last \in FailingRanks :
                   /\ \A r \in FailingRanks : last <= r
                   /\ AssessedRanks = [k \in 1..(last + 1) |-> k - 1]
        ELSE /\ call.kind = "return"
             /\ AssessedRanks = [k \in 1..NFeat |-> k - 1]
             /\ \A k \in 1..NFeat :
                   /\ call.trace[k].kind = "return"
                   /\ call.trace[k].val = Scalar(R(evidence[k - 1]))
             /\ call.val.val \in range(NFeat)
             /\ \A r \in range(NFeat) :
                   /\ evidence[r] <= evidence[call.val.val]
                   /\ r < call.val.val => evidence[r] < evidence[call.val.val]

\* three ranks assessed on a spectrum of length 3 where rank 3 would have
\* scored highest; rank 1, the first of the two best assessed, is returned
C7_Witness ==
    /\ Inferred /\ call.kind = "return" /\ NFeat = 3
    /\ AssessedRanks = <<0, 1, 2>>
    /\ evidence = (0 :> 0 @@ 1 :> 1 @@ 2 :> 1 @@ 3 :> 1)
    /\ call.val = Intp(1)

\* C8: error_norm with a norm other than 'frobenius' and 'spectral' never
\* returns a value: on a fitted estimator it raises NotImplementedError
\* whatever scaling and squared are; _assess_dimension_ with rank >
\* len(spectrum) raises the invalid-rank ValueError with no term of the
\* score computed; and no assessment made by _infer_dimension_ ends in the
\* invalid-rank error.
C8_InvalidOptionsRejected ==
    /\ (call.op = "error_norm" /\ call.args[2] \notin {"frobenius", "spectral"}) =>
          /\ call.kind = "raise"
          /\ call.fitted => call.val = NotImplementedError
    /\ (call.op = "_assess_dimension_" /\ call.args[2] > Len(call.args[1])) =>
          /\ call.kind = "raise" /\ call.val = InvalidRank
          /\ call.trace = <<>>
    /\ \A k \in 1..Len(dim.trace) : dim.trace[k].val # InvalidRank
    /\ Inferred =>
          /\ call.val # InvalidRank
          /\ \A k \in 1..Len(call.trace) : call.trace[k].val # InvalidRank

\* the nuclear norm asked of a fitted estimator, scaled and not squared
C8_Witness ==
    /\ call.op = "error_norm" /\ call.fitted
    /\ call.args[2] = "nuclear" /\ call.args[3] /\ ~call.args[4]
    /\ call.kind = "raise" /\ call.val = NotImplementedError

-----------------------------------------------------------------------------
(* Claims about the values fit stores (SpecCov) *)

\* r is the rational num / den
Is(r, num, den) == r[1] * den = num * r[2]
ColumnSum(X, j) == ISum([k \in 1..NRows(X) |-> X[k][j]])
ZeroMean(X) == \A j \in 1..NCols(X) : ColumnSum(X, j) = 0
IsShape(a, n, m) == Len(a) = n /\ \A i \in 1..n : Len(a[i]) = m

\* C9: after fit(X) on an n x f matrix, location_ has f entries, all 0
\* under assume_centered and the column means sum_k X[k][j] / n otherwise;
\* covariance_ is f x f (1 x 1 for one feature) with entries
\* sum_k X[k][a] X[k][b] / n under assume_centered and
\* sum_k (X[k][a] - mean_a)(X[k][b] - mean_b) / n otherwise (written below
\* with both sides multiplied by n^2: sum_k (n X[k][a] - S_a)(n X[k][b] - S_b)
\* / n^3); the divisor is n, not n - 1.
C9_PopulationCovariance ==
    \A i \in Instances : Fitted(i) =>
        LET n == NRows(data)
            f == NCols(data)
            S(j) == ColumnSum(data, j)
            loc == location_[i].val
            cov == covariance_[i].val
        IN  /\ IsArray(location_[i]) /\ IsArray(covariance_[i])
            /\ Len(loc) = f /\ IsShape(cov, f, f)
            /\ \A j \in 1..f :
                  IF assume_centered[i] THEN loc[j] = R(0) ELSE Is(loc[j], S(j), n)
            /\ \A a \in 1..f, b \in 1..f :
                  IF assume_centered[i]
                  THEN Is(cov[a][b], ISum([k \in 1..n |-> data[k][a] * data[k][b]]), n)
                  ELSE Is(cov[a][b],
                          ISum([k \in 1..n |-> (n * data[k][a] - S(a))
                                               * (n * data[k][b] - S(b))]),
                          n * n * n)

\* two samples of one feature, 1 and -1: the covariance without
\* assume_centered is the 1 x 1 matrix [[1]] (and would be [[2]] with n - 1)
C9_Witness ==
    /\ Fitted(2) /\ ~assume_centered[2]
    /\ NRows(data) = 2 /\ NCols(data) = 1
    /\ covariance_[2] = Arr(<<<<R(1)>>>>)
    /\ location_[2] = Arr(<<R(0)>>)

\* C10: when every column of X sums to zero, the estimator fitted with
\* assume_centered and the one fitted without have the same covariance_, and
\* both have the zero vector as location_.
C10_ZeroMeanAgree ==
    (Fitted(1) /\ Fitted(2) /\ ZeroMean(data)) =>
        /\ covariance_[1] = covariance_[2]
        /\ location_[1] = Arr(Zeros(NCols(data)))
        /\ location_[2] = Arr(Zeros(NCols(data)))

\* both fitted on zero-mean data of two features that vary against each other
C10_Witness ==
    /\ Fitted(1) /\ Fitted(2) /\ ZeroMean(data)
    /\ assume_centered[1] /\ ~assume_centered[2]
    /\ NCols(data) = 2
    /\ covariance_[1] = covariance_[2]
    /\ covariance_[2].val[1][2] = R(-1)

-----------------------------------------------------------------------------
(* Further claims about one estimator and its caller (Spec) *)

\* C11: fit(X) returns for every X of the model; it leaves the estimator
\* fitted, with a covariance_ of n_features x n_features entries; it emits
\* the one-sample warning, once, when X has one row, and no warning when X
\* has more.
C11_OneSampleWarns ==
    call.op = "fit" =>
        LET X == call.args[1]
        IN  /\ call.kind = "return"
            /\ FullyFitted(1)
            /\ IsShape(covariance_[1].val, NCols(X), NCols(X))
            /\ NRows(X) = 1 => call.warnings = <<OneSampleWarning>>
            /\ NRows(X) > 1 => call.warnings = <<>>

\* one sample of two features, not assumed centered: the warning is emitted
\* and covariance_ is the 2 x 2 zero matrix
C11_Witness ==
    /\ call.op = "fit" /\ call.kind = "return"
    /\ NRows(call.args[1]) = 1 /\ NCols(call.args[1]) = 2
    /\ ~assume_centered[1]
    /\ call.warnings = <<OneSampleWarning>>
    /\ covariance_[1] = Arr(Zeros2(2))

-----------------------------------------------------------------------------
(* Claims about pinvh, pinv and _logdet (SpecLinalg) *)

\* the values of seq that exceed cutoff in absolute value, in order
AboveCutoff(seq, cutoff) ==
    LET Above(x) == RGt(RAbs(x), cutoff) IN SelectSeq(seq, Above)
\* the values of the decomposition of the argument of the last call, and
\* the rtol the call works with
Spectrum(op, a) == IF op = "pinvh" THEN np_linalg_eigh(a).s ELSE np_linalg_svd(a).s
EffectiveRtol(op, a, rtol) ==
    IF rtol # None THEN rtol.val
    ELSE IF op = "pinvh" THEN RMul(R(Len(a)), eps)
    ELSE RMul(R(IF Len(a) > Len(a[1]) THEN Len(a) ELSE Len(a[1])), eps)

\* C12: pinvh(a, rtol) and pinv(a, rtol), for rtol >= 0 or the default,
\* return; the eigenvalues (singular values) they invert are exactly those
\* of absolute value > rtol * max |value|, none of which is zero; the result
\* has the shape of the transpose of a; when nothing is retained (as for an
\* all-zero a) the result is the zero matrix; and when the values are
\* integers of which only zeros are dropped, the result p is a generalised
\* inverse: a p a = a and p a p = p.
C12_Truncation ==
    call.op \in {"pinvh", "pinv"} =>
        LET a == call.args[1]
            sv == Spectrum(call.op, a)
            maxS == RMax([k \in 1..Len(sv) |-> RAbs(sv[k])])
            cutoff == RMul(maxS, EffectiveRtol(call.op, a, call.args[2]))
            p == call.val.val
        IN  /\ call.kind = "return"
            /\ call.trace = AboveCutoff(sv, cutoff)
            /\ \A k \in 1..Len(call.trace) : call.trace[k] # R(0)
            /\ IsShape(p, Len(a[1]), Len(a))
            /\ IsZero(a) => call.trace = <<>>
            /\ call.trace = <<>> => IsZero(p)
            /\ (\A k \in 1..Len(sv) :
                    sv[k] # Tiny /\ (sv[k] = R(0) \/ RGt(RAbs(sv[k]), cutoff))) =>
                  Dot(Dot(a, p), a) = a /\ Dot(Dot(p, a), p) = p

\* pinvh with the default rtol on a matrix with eigenvalues -2 and 1/64:
\* only -2 is inverted
C12_Witness ==
    /\ call.op = "pinvh" /\ call.args[2] = None
    /\ np_linalg_eigh(call.args[1]).s = <<R(-2), Tiny>>
    /\ call.trace = <<R(-2)>>
    /\ ~IsZero(call.val.val)

\* a symmetric matrix with no negative eigenvalue
PositiveSemidefinite(A) ==
    \A k \in 1..Len(A) : ~RGt(R(0), np_linalg_eigh(A).s[k])

\* C14 (as claimed): on a symmetric positive-semidefinite A, the all-zero
\* matrix included, _logdet replaces every eigenvalue that is not above
\* tol = max(eigenvalue) * n * eps by tol, and every value whose logarithm
\* it takes is strictly positive.
C14_LogOfPositiveOnly ==
    (call.op = "_logdet" /\ PositiveSemidefinite(call.args[1])) =>
        LET vals == np_linalg_eigh(call.args[1]).s
            tol == RMul(RMul(RMax(vals), R(Len(vals))), eps)
        IN  /\ \A k \in 1..Len(vals) :
                  call.trace[k] = IF RGt(vals[k], tol) THEN vals[k] ELSE tol
            /\ \A k \in 1..Len(vals) : RGt(call.trace[k], R(0))
            /\ call.warnings = <<>>

-----------------------------------------------------------------------------
(* Claims about the values error_norm returns and about precision_ (Spec) *)

\* the sum over all entries of (A - B)^2
SquaredDifference(A, B) ==
    RSum([i \in 1..Len(A) |->
            RSum([j \in 1..Len(A[i]) |->
                    RMul(RSub(A[i][j], B[i][j]), RSub(A[i][j], B[i][j]))])])

\* C13: on a fitted estimator, error_norm(comp_cov, norm='frobenius',
\* squared=True) returns the sum over all entries of (comp_cov -
\* covariance_)^2, divided by n_features when scaling is true and as it is
\* when scaling is false; the value is never negative, and it is 0 when
\* comp_cov is covariance_ itself.
C13_FrobeniusValue ==
    (call.op = "error_norm" /\ call.fitted /\ call.args[2] = "frobenius"
        /\ call.args[4]) =>
        LET comp_cov == call.args[1]
            scaling == call.args[3]
            sq == SquaredDifference(comp_cov, covariance_[1].val)
            n_features == Len(covariance_[1].val)
        IN  /\ call.kind = "return"
            /\ call.val = Scalar(IF scaling THEN RDiv(sq, R(n_features)) ELSE sq)
            /\ call.val.val[1] >= 0
            /\ comp_cov = covariance_[1].val => call.val = Scalar(R(0))

\* the scaled squared Frobenius distance of a 2 x 2 covariance_ to the
\* identity, which is not 0
C13_Witness ==
    /\ call.op = "error_norm" /\ call.fitted /\ call.kind = "return"
    /\ call.args[2] = "frobenius" /\ call.args[3] /\ call.args[4]
    /\ call.args[1] = Eye(2)
    /\ call.val.tag = "scalar" /\ call.val.val[1] > 0

====
